---- MODULE Spec2Model ----
(***************************************************************************)
(* Model of Player_Performance.                                            *)
(*                                                                         *)
(* The coach dashboard (src/src/components/coach/CoachDashboard.jsx): the  *)
(* loads of the roster (useEffect, loadDashboardData, Try Again), the team *)
(* statistics computed by calculateTeamStats, the score classification     *)
(* (getPerformanceStatus / getPerformanceColor) and the CSV document built *)
(* by handleExportReport.                                                  *)
(*                                                                         *)
(* The registration form (src/unnamed/part_000): validateForm,             *)
(* handleChange and handleSubmit.                                          *)
(*                                                                         *)
(* Conventions                                                             *)
(*  - A JavaScript object is a function from field names to values; a      *)
(*    field that is undefined is a field that is not in the DOMAIN.        *)
(*  - null is the empty tuple (Null); a value that may be null is Null or  *)
(*    the one-element tuple of the value.                                  *)
(*  - Player statistics are integers.  teamStats.averageScore is a double  *)
(*    of the form n/100 with n an integer (the result of                   *)
(*    Math.round(x) / 100); the model stores the integer n, the number of  *)
(*    hundredths.                                                          *)
(*  - Text is TLA+ strings of ASCII characters; characters are read with   *)
(*    SubSeq(s, i, i).                                                     *)
(***************************************************************************)
EXTENDS Integers, Sequences, FiniteSets, TLC

VARIABLES
    userData,     \* useAuth().userData: Null, or <<the object of the signed-in user>>
    players,      \* useState([]): the roster shown by the dashboard
    loading,      \* useState(true)
    error,        \* useState(null): Null, or <<message>>
    teamStats,    \* useState({totalPlayers, averageScore, totalMatches, topPerformer})
    today,        \* new Date().toLocaleDateString() at the time of the export
    csvContent,   \* the document handed to the Blob by handleExportReport
    exported,     \* TRUE once handleExportReport has run
    score,        \* argument of getPerformanceStatus / getPerformanceColor
    status,       \* result of getPerformanceStatus(score)
    color,        \* result of getPerformanceColor(score)
    mounted,      \* TRUE once the effect of the first render has run
    inflight,     \* the calls of getPlayersByCoach that have not settled yet
    started,      \* the number of calls of getPlayersByCoach so far
    formData,     \* RegisterForm: useState({name, email, password, confirmPassword, role, sport})
    errors,       \* RegisterForm: useState({})
    isSubmitting, \* RegisterForm: useState(false)
    submission,   \* RegisterForm: the arguments of the pending register(...), or Null
    reloading     \* RegisterForm: window.location.reload() was called, the document is not replaced yet

\* The state of CoachDashboard, of its pending loads and of RegisterForm.
dashboardVars == <<userData, players, loading, error, teamStats, today, csvContent,
                   exported, score, status, color>>
loadVars == <<mounted, inflight, started>>
formVars == <<formData, errors, isSubmitting, submission, reloading>>

vars == <<dashboardVars, loadVars, formVars>>

(***************************************************************************)
(* Bounds of the model.                                                    *)
(***************************************************************************)
\* Longest roster returned by getPlayersByCoach.
MaxPlayers == 2
\* Classified scores range over -MaxBelowZero .. MaxScore.
MaxBelowZero == 20
MaxScore == 120
\* Most calls of getPlayersByCoach in one session of the dashboard.
MaxLoads == 3

(***************************************************************************)
(* JavaScript values.                                                      *)
(***************************************************************************)
\* The empty object: every field undefined.
NoFields == [f \in {} |-> 0]

\* A field of an object literal; an undefined value (<<>>) leaves the field out.
Field(f, opt) == IF opt = <<>> THEN NoFields ELSE f :> opt[1]

\* A faulty OrZero, to test the properties against: an undefined field counts as 1.
OrZeroMissingAsOne(player, f) ==
    IF f \in DOMAIN player THEN player[f] ELSE 1

\* player.f || 0 for a numeric field: undefined and 0 are falsy.
OrZero(player, f) ==
    IF f \in DOMAIN player /\ player[f] # 0 THEN player[f] ELSE 0

\* player.f || '' for a text field: undefined and '' are falsy.
OrEmpty(player, f) ==
    IF f \in DOMAIN player THEN player[f] ELSE ""

\* The i-th character of a string, as a string.
CharAt(str, i) == SubSeq(str, i, i)

(***************************************************************************)
(* IEEE 754 double arithmetic, as far as calculateTeamStats uses it:       *)
(* totalScore / totalMatches, * 100 and Math.round.  A double is           *)
(* [s, e, m]: sign s (0 for zero), exponent e and the 53 bits m of the     *)
(* significand, most significant first, so its value is                    *)
(* s * (m read as a binary number) * 2^(e - 52).                           *)
(***************************************************************************)
RECURSIVE ToBits(_)
ToBits(n) == IF n = 0 THEN <<>> ELSE Append(ToBits(n \div 2), n % 2)

\* The number whose binary digits are bits[1..n].
RECURSIVE BitsValue(_, _)
BitsValue(bits, n) == IF n = 0 THEN 0 ELSE 2 * BitsValue(bits, n - 1) + bits[n]

\* The binary digits of v, padded with zeros on the left to the given width.
Padded(v, width) ==
    LET b == ToBits(v)
    IN  [i \in 1..width |-> IF i <= width - Len(b) THEN 0 ELSE b[i - (width - Len(b))]]

RECURSIVE Pow2(_)
Pow2(n) == IF n = 0 THEN 1 ELSE 2 * Pow2(n - 1)

\* Long division in digits of 18 bits.
ChunkBase == 512 * 512

\* The first 18 * k bits of the binary expansion of r/d (0 <= r < d < 2^13),
\* and the remainder left after them.
RECURSIVE FracBits(_, _, _)
FracBits(r, d, k) ==
    IF k = 0 THEN [bits |-> <<>>, rem |-> r]
    ELSE LET rest == FracBits((r * ChunkBase) % d, d, k - 1)
         IN  [bits |-> Padded((r * ChunkBase) \div d, 18) \o rest.bits,
              rem |-> rest.rem]

\* The number of zero bits that open the binary expansion of r/d (0 < r < d).
RECURSIVE LeadingZeros(_, _)
LeadingZeros(r, d) == IF 2 * r >= d THEN 0 ELSE 1 + LeadingZeros(2 * r, d)

DoubleZero == [s |-> 0, e |-> 0, m |-> <<>>]

\* Round to nearest, ties to even: bits holds at least 54 leading bits of the
\* exact value (the first one set), sticky tells whether more follows them.
RoundToDouble(s, e, bits, sticky) ==
    LET m == SubSeq(bits, 1, 53)
        guard == bits[54]
        st == sticky \/ \E i \in 55..Len(bits) : bits[i] = 1
        up == guard = 1 /\ (st \/ m[53] = 1)
        zeros == {i \in 1..53 : m[i] = 0}
        k == CHOOSE i \in zeros : \A j \in zeros : j <= i
    IN  IF ~up THEN [s |-> s, e |-> e, m |-> m]
        ELSE IF zeros = {}
             THEN [s |-> s, e |-> e + 1, m |-> [i \in 1..53 |-> IF i = 1 THEN 1 ELSE 0]]
             ELSE [s |-> s, e |-> e,
                   m |-> [i \in 1..53 |-> IF i < k THEN m[i] ELSE IF i = k THEN 1 ELSE 0]]

\* a / d in double arithmetic, for integers a and 0 < d < 2^13 (both exact
\* doubles).
DivideDouble(a, d) ==
    IF a = 0 THEN DoubleZero
    ELSE LET s == IF a < 0 THEN -1 ELSE 1
             abs == IF a < 0 THEN -a ELSE a
             ib == ToBits(abs \div d)
             z == LeadingZeros(abs, d)
             fb == IF abs >= d THEN FracBits(abs % d, d, 3)
                   ELSE FracBits(abs * Pow2(z), d, 3)
         IN  IF abs >= d
             THEN RoundToDouble(s, Len(ib) - 1, ib \o fb.bits, fb.rem # 0)
             ELSE RoundToDouble(s, -(z + 1), fb.bits, fb.rem # 0)

\* x * 100 in double arithmetic.  The 53 bits of x are multiplied in three
\* limbs of 18, 18 and 17 bits.
TimesHundred(x) ==
    IF x.s = 0 THEN DoubleZero
    ELSE LET hi == BitsValue(SubSeq(x.m, 1, 18), 18)
             mid == BitsValue(SubSeq(x.m, 19, 36), 18)
             lo == BitsValue(SubSeq(x.m, 37, 53), 17)
             p0 == lo * 100
             p1 == mid * 100 + p0 \div Pow2(17)
             p2 == hi * 100 + p1 \div Pow2(18)
             prod == ToBits(p2) \o Padded(p1 % Pow2(18), 18) \o Padded(p0 % Pow2(17), 17)
         IN  RoundToDouble(x.s, x.e + (Len(prod) - 53), prod, FALSE)

\* Math.round(x): the integer nearest to x, a tie going towards +Infinity.
MathRound(x) ==
    IF x.s = 0 \/ x.e < -1 THEN 0
    ELSE LET whole == BitsValue(x.m, x.e + 1)
             half == x.m[x.e + 2] = 1
             more == \E i \in (x.e + 3)..53 : x.m[i] = 1
         IN  IF x.s > 0
             THEN whole + (IF half THEN 1 ELSE 0)
             ELSE -(whole + (IF half /\ more THEN 1 ELSE 0))

(***************************************************************************)
(* calculateTeamStats (CoachDashboard.jsx, lines 55-85).                   *)
(***************************************************************************)
Null == <<>>

\* useState({totalPlayers: 0, averageScore: 0, totalMatches: 0, topPerformer: null})
\* and the summary calculateTeamStats sets for an empty roster.
EmptyTeamStats ==
    [totalPlayers |-> 0, averageScore |-> 0, totalMatches |-> 0, topPerformer |-> Null]

\* A faulty SumField, to test the properties against: the reduce starts from the second player.
RECURSIVE SumFieldFromSecond(_, _, _)
SumFieldFromSecond(playersData, f, n) ==
    IF n <= 1 THEN 0
    ELSE SumFieldFromSecond(playersData, f, n - 1) + OrZero(playersData[n], f)

\* playersData.reduce((sum, player) => sum + (player[f] || 0), 0) over the
\* first n players.
RECURSIVE SumField(_, _, _)
SumField(playersData, f, n) ==
    IF n = 0 THEN 0
    ELSE SumField(playersData, f, n - 1) + OrZero(playersData[n], f)

\* Math.round(averageScore * 100), where averageScore is
\* totalMatches > 0 ? (totalScore / totalMatches) : 0.  The summary's
\* averageScore is this integer divided by 100.
RoundedAverage(totalScore, totalMatches) ==
    IF totalMatches > 0
    THEN MathRound(TimesHundred(DivideDouble(totalScore, totalMatches)))
    ELSE 0

\* A faulty HasPlayed, to test the properties against: the filter keeps players without a match.
HasPlayedOrNot(player) == OrZero(player, "matchCount") >= 0

\* The filter of the top performer: (player.matchCount || 0) > 0.
HasPlayed(player) == OrZero(player, "matchCount") > 0

\* A faulty Replaces, to test the properties against: a tie replaces the current best.
ReplacesOnTie(playersData, top, i) ==
    top = 0 \/ OrZero(playersData[i], "averageScore") >= OrZero(playersData[top], "averageScore")

\* The reducer's test: !top || playerAvg > (top.averageScore || 0).
Replaces(playersData, top, i) ==
    top = 0 \/ OrZero(playersData[i], "averageScore") > OrZero(playersData[top], "averageScore")

\* playersData.filter(...).reduce(..., null) over the first n players, as the
\* position of the selected player in playersData (0 for null).
RECURSIVE TopPerformerIndex(_, _)
TopPerformerIndex(playersData, n) ==
    IF n = 0 THEN 0
    ELSE LET top == TopPerformerIndex(playersData, n - 1)
         IN  IF HasPlayed(playersData[n]) /\ Replaces(playersData, top, n)
             THEN n ELSE top

\* The value calculateTeamStats passes to setTeamStats.
calculateTeamStats(playersData) ==
    IF Len(playersData) = 0 THEN EmptyTeamStats
    ELSE LET totalPlayers == Len(playersData)
             totalMatches == SumField(playersData, "matchCount", Len(playersData))
             totalScore == SumField(playersData, "totalScore", Len(playersData))
             top == TopPerformerIndex(playersData, Len(playersData))
         IN  [totalPlayers |-> totalPlayers,
              averageScore |-> RoundedAverage(totalScore, totalMatches),
              totalMatches |-> totalMatches,
              topPerformer |-> IF top = 0 THEN Null ELSE <<playersData[top]>>]

(***************************************************************************)
(* Rosters returned by firestoreService.getPlayersByCoach.  Every record   *)
(* carries the unique id of its document.                                  *)
(***************************************************************************)
MatchCounts == {<<>>, <<0>>, <<8>>, <<200>>}
TotalScores == {<<>>, <<1>>, <<201>>}
AverageScores == {<<>>, <<0>>, <<75>>}

\* Records that differ in the statistics the team average reads (matchCount,
\* totalScore), and records that differ in the statistics the selection of
\* the top performer reads (matchCount, averageScore).
StatsPool ==
    { Field("matchCount", mc) @@ Field("totalScore", ts)
        : mc \in MatchCounts, ts \in TotalScores }
    \cup
    { Field("matchCount", mc) @@ Field("averageScore", av)
        : mc \in MatchCounts, av \in AverageScores }

WithIds(records) == [i \in 1..Len(records) |-> ("id" :> i) @@ records[i]]

Rosters(pool) ==
    UNION { { WithIds(f) : f \in [1..n -> pool] } : n \in 0..MaxPlayers }

Coaches == { <<[uid |-> "c1", name |-> "Kim"]>> }

\* userData?.uid is truthy: userData is not null and its uid is neither
\* undefined nor ''.
HasUid(user) == user # Null /\ "uid" \in DOMAIN user[1] /\ user[1].uid # ""

\* userData?.name || ''
UserName(user) == IF user = Null THEN "" ELSE OrEmpty(user[1], "name")

(***************************************************************************)
(* RegisterForm (src/unnamed/part_000).  formData is a record of strings;  *)
(* errors is a function from field names to messages, a field without an   *)
(* entry being a field that is not in its DOMAIN.                          *)
(***************************************************************************)
\* The characters that \s and String.prototype.trim take as white space,
\* among the ASCII characters: space, tab, line feed, form feed, carriage
\* return and, written as it is, U+000B (vertical tab).  The strings of the
\* model are ASCII: the white space beyond ASCII (U+00A0, U+1680, U+2000 to
\* U+200A, U+2028, U+2029, U+202F, U+205F, U+3000, U+FEFF) is in no input.
WhiteSpace == {" ", "\t", "\n", "\f", "\r", ""}

IsSpace(str, i) == CharAt(str, i) \in WhiteSpace

\* String.prototype.trim
Trim(str) ==
    LET kept == {i \in 1..Len(str) : ~IsSpace(str, i)}
    IN  IF kept = {} THEN ""
        ELSE SubSeq(str, CHOOSE i \in kept : \A j \in kept : i <= j,
                         CHOOSE i \in kept : \A j \in kept : j <= i)

\* /\S+@\S+\.\S+/.test(str): somewhere in str, a character that is not white
\* space, an @, one or more characters that are not white space, a dot and a
\* character that is not white space.
TestEmailPattern(str) ==
    \E at \in 2..Len(str), dot \in 4..(Len(str) - 1) :
        /\ CharAt(str, at) = "@"
        /\ CharAt(str, dot) = "."
        /\ at + 2 <= dot
        /\ ~IsSpace(str, at - 1)
        /\ \A i \in (at + 1)..(dot - 1) : ~IsSpace(str, i)
        /\ ~IsSpace(str, dot + 1)

\* Lines 66-70.
nameError(data) ==
    IF Trim(data.name) = "" THEN "name" :> "Full name is required"
    ELSE IF Len(Trim(data.name)) < 2
         THEN "name" :> "Name must be at least 2 characters long"
         ELSE NoFields

\* Lines 72-76.
emailError(data) ==
    IF Trim(data.email) = "" THEN "email" :> "Email is required"
    ELSE IF ~TestEmailPattern(data.email)
         THEN "email" :> "Please enter a valid email address"
         ELSE NoFields

\* Lines 78-82.
passwordError(data) ==
    IF data.password = "" THEN "password" :> "Password is required"
    ELSE IF Len(data.password) < 6
         THEN "password" :> "Password must be at least 6 characters long"
         ELSE NoFields

\* Lines 84-88.
confirmPasswordError(data) ==
    IF data.confirmPassword = ""
    THEN "confirmPassword" :> "Please confirm your password"
    ELSE IF data.password # data.confirmPassword
         THEN "confirmPassword" :> "Passwords do not match"
         ELSE NoFields

\* Lines 90-92.
roleError(data) ==
    IF data.role = "" THEN "role" :> "Please select your role" ELSE NoFields

\* A faulty sportError, to test the properties against: the sport is required for every role.
sportErrorForAnyRole(data) ==
    IF data.sport = "" THEN "sport" :> "Please select your sport" ELSE NoFields

\* Lines 94-96.
sportError(data) ==
    IF data.role = "player" /\ data.sport = ""
    THEN "sport" :> "Please select your sport"
    ELSE NoFields

\* A faulty validateForm, to test the properties against: only the first broken rule is reported.
validateFormFirstError(data) ==
    LET found == <<nameError(data), emailError(data), passwordError(data),
                   confirmPasswordError(data), roleError(data), sportError(data)>>
        at == {i \in 1..6 : found[i] # NoFields}
    IN  IF at = {} THEN NoFields ELSE found[CHOOSE i \in at : \A j \in at : i <= j]

\* validateForm (lines 63-99): newErrors.
validateForm(data) ==
    nameError(data) @@ emailError(data) @@ passwordError(data)
        @@ confirmPasswordError(data) @@ roleError(data) @@ sportError(data)

\* useState of lines 10-19.
InitialFormData ==
    [name |-> "", email |-> "", password |-> "", confirmPassword |-> "",
     role |-> "", sport |-> ""]

InitForm ==
    /\ formData = InitialFormData
    /\ errors = NoFields
    /\ isSubmitting = FALSE
    /\ submission = Null
    /\ reloading = FALSE

\* errors[f] is truthy.
HasError(f) == f \in DOMAIN errors /\ errors[f] # ""

\* A faulty handleChange, to test the properties against: the sport is kept when the role changes.
handleChangeKeepingSport(name, value) ==
    /\ ~isSubmitting
    /\ name = "sport" => formData.role = "player"
    /\ formData' = [formData EXCEPT ![name] = value]
    /\ errors' = IF HasError(name) THEN [errors EXCEPT ![name] = ""] ELSE errors
    /\ UNCHANGED <<isSubmitting, submission, reloading>>
    /\ UNCHANGED <<dashboardVars, loadVars>>

\* handleChange (lines 30-58) for the event of the input called name taking
\* value.  The inputs are disabled while isSubmitting, and the sport select
\* is rendered only while formData.role is 'player' (lines 211-230).
handleChange(name, value) ==
    /\ ~isSubmitting
    /\ name = "sport" => formData.role = "player"
    /\ LET toCoach == name = "role" /\ value = "coach"
           changed == [formData EXCEPT ![name] = value]
           cleared == IF HasError(name) THEN [errors EXCEPT ![name] = ""] ELSE errors
       IN  /\ formData' = IF toCoach THEN [changed EXCEPT !.sport = ""] ELSE changed
           /\ errors' = IF toCoach /\ HasError("sport")
                        THEN [cleared EXCEPT !["sport"] = ""] ELSE cleared
    /\ UNCHANGED <<isSubmitting, submission, reloading>>
    /\ UNCHANGED <<dashboardVars, loadVars>>

\* The arguments of register(...) (lines 117-123).
RegisterArguments(data) ==
    [email |-> data.email, password |-> data.password, name |-> Trim(data.name),
     role |-> data.role,
     sport |-> IF data.role = "player" THEN <<data.sport>> ELSE Null]

\* A faulty handleSubmit, to test the properties against: register is called whatever
\* validateForm returns.
handleSubmitWithoutReturn ==
    /\ ~isSubmitting
    /\ isSubmitting' = TRUE
    /\ errors' = NoFields
    /\ submission' = <<RegisterArguments(formData)>>
    /\ UNCHANGED <<formData, reloading>>
    /\ UNCHANGED <<dashboardVars, loadVars>>

\* handleSubmit (lines 104-123), up to the await of register(...).  The
\* submit button is disabled while isSubmitting.
handleSubmit ==
    /\ ~isSubmitting
    /\ LET formErrors == validateForm(formData)
       IN  IF formErrors # NoFields
           THEN /\ errors' = formErrors
                /\ UNCHANGED <<isSubmitting, submission>>
           ELSE /\ isSubmitting' = TRUE
                /\ errors' = NoFields
                /\ submission' = <<RegisterArguments(formData)>>
    /\ UNCHANGED <<formData, reloading>>
    /\ UNCHANGED <<dashboardVars, loadVars>>

\* register(...) resolves (lines 124-125 and 128-130):
\* window.location.reload() starts the navigation and returns, and the
\* finally block sets isSubmitting to false.  The form keeps its data and is
\* enabled again until the document is replaced.
RegisterResolves ==
    /\ submission # Null
    /\ isSubmitting' = FALSE
    /\ submission' = Null
    /\ reloading' = TRUE
    /\ UNCHANGED <<formData, errors>>
    /\ UNCHANGED <<dashboardVars, loadVars>>

\* The navigation started by window.location.reload() (line 125) replaces
\* the document: the form of the new document is in its initial state
\* (lines 10-19), and the continuation of a register(...) still pending in
\* the old document never runs.
Reload ==
    /\ reloading
    /\ formData' = InitialFormData
    /\ errors' = NoFields
    /\ isSubmitting' = FALSE
    /\ submission' = Null
    /\ reloading' = FALSE
    /\ UNCHANGED <<dashboardVars, loadVars>>

\* error.message of a rejected register(...).
RegisterFailures == {<<>>, <<"Email already in use">>}

\* register(...) rejects (lines 126-130).
RegisterRejects ==
    /\ submission # Null
    /\ \E message \in RegisterFailures : errors' = Field("submit", message)
    /\ isSubmitting' = FALSE
    /\ submission' = Null
    /\ UNCHANGED <<formData, reloading>>
    /\ UNCHANGED <<dashboardVars, loadVars>>

(***************************************************************************)
(* The dashboard.                                                          *)
(***************************************************************************)
InitDashboard ==
    /\ players = <<>>
    /\ loading = TRUE
    /\ error = Null
    /\ teamStats = EmptyTeamStats
    /\ csvContent = ""
    /\ exported = FALSE
    /\ mounted = FALSE
    /\ inflight = {}
    /\ started = 0

NoClassification == score = 0 /\ status = "" /\ color = ""

Init ==
    /\ InitDashboard
    /\ userData \in Coaches
    /\ today = ""
    /\ NoClassification
    /\ InitForm

\* loadDashboardData up to the await of getPlayersByCoach (lines 33-38).  A
\* pending call is known by its rank among the calls.
StartLoad ==
    /\ loading' = TRUE
    /\ error' = Null
    /\ started' = started + 1
    /\ inflight' = inflight \cup {started + 1}

\* The effect of lines 23-27 after the first render.
Mount ==
    /\ ~mounted
    /\ mounted' = TRUE
    /\ IF HasUid(userData)
       THEN StartLoad
       ELSE UNCHANGED <<loading, error, started, inflight>>
    /\ UNCHANGED <<userData, players, teamStats, today, csvContent, exported,
                   score, status, color>>
    /\ UNCHANGED formVars

\* A faulty LoadDashboardData, to test the properties against: the statistics are those
\* of the roster without its last player.
LoadDashboardDataShortStats(rosters) ==
    /\ \E load \in inflight, playersData \in rosters :
         /\ inflight' = inflight \ {load}
         /\ players' = playersData
         /\ teamStats' = calculateTeamStats(SubSeq(playersData, 1, Len(playersData) - 1))
    /\ loading' = FALSE
    /\ UNCHANGED <<userData, error, today, csvContent, exported, score, status, color,
                   mounted, started>>
    /\ UNCHANGED formVars

\* loadDashboardData from the point where a pending getPlayersByCoach
\* resolves with playersData (lines 38-42 and 46-48).
LoadDashboardData(rosters) ==
    /\ \E load \in inflight, playersData \in rosters :
         /\ inflight' = inflight \ {load}
         /\ players' = playersData
         /\ teamStats' = calculateTeamStats(playersData)
    /\ loading' = FALSE
    /\ UNCHANGED <<userData, error, today, csvContent, exported, score, status, color,
                   mounted, started>>
    /\ UNCHANGED formVars

LoadStats == LoadDashboardData(Rosters(StatsPool))

Next == Mount \/ LoadStats

Spec == Init /\ [][Next]_vars

(***************************************************************************)
(* The loads of the dashboard: userData changes, loads fail, loads overlap *)
(* and the coach tries again.                                              *)
(***************************************************************************)
\* err.message of a rejected getPlayersByCoach.
LoadFailures == {<<>>, <<"">>, <<"permission-denied">>}

\* err.message || 'Failed to load dashboard data'
ErrorMessage(message) ==
    IF message = <<>> \/ message[1] = "" THEN "Failed to load dashboard data"
    ELSE message[1]

\* A faulty LoadRejects, to test the properties against: the roster is emptied when a load fails.
LoadRejectsEmptyingPlayers ==
    /\ \E load \in inflight, message \in LoadFailures :
         /\ inflight' = inflight \ {load}
         /\ error' = <<ErrorMessage(message)>>
    /\ players' = <<>>
    /\ loading' = FALSE
    /\ UNCHANGED <<userData, teamStats, today, csvContent, exported, score,
                   status, color, mounted, started>>
    /\ UNCHANGED formVars

\* loadDashboardData from the point where a pending getPlayersByCoach
\* rejects (lines 43-48).
LoadRejects ==
    /\ \E load \in inflight, message \in LoadFailures :
         /\ inflight' = inflight \ {load}
         /\ error' = <<ErrorMessage(message)>>
    /\ loading' = FALSE
    /\ UNCHANGED <<userData, players, teamStats, today, csvContent, exported, score,
                   status, color, mounted, started>>
    /\ UNCHANGED formVars

\* useAuth() provides another userData (null, written Null, when nobody is
\* signed in) and the effect of lines 23-27 runs again: it loads when
\* userData?.uid is truthy.
ChangeUserData(users) ==
    /\ mounted
    /\ \E user \in users : userData' = user
    /\ IF HasUid(userData')
       THEN started < MaxLoads /\ StartLoad
       ELSE UNCHANGED <<loading, error, started, inflight>>
    /\ UNCHANGED <<players, teamStats, today, csvContent, exported, score, status,
                   color, mounted>>
    /\ UNCHANGED formVars

\* The Try Again button (line 186), rendered when loading is false and error
\* is set: loadDashboardData runs again, whatever userData.uid is (undefined
\* and '' included).  With userData null, line 38 throws before the call and
\* the catch and finally blocks run at once.
TryAgain ==
    /\ mounted
    /\ ~loading
    /\ error # Null
    /\ IF userData # Null
       THEN started < MaxLoads /\ StartLoad
       ELSE /\ error' = <<"Cannot read properties of null (reading 'uid')">>
            /\ UNCHANGED <<loading, started, inflight>>
    /\ UNCHANGED <<userData, players, teamStats, today, csvContent, exported, score,
                   status, color, mounted>>
    /\ UNCHANGED formVars

LoadPool ==
    { NoFields,
      [name |-> "Ann", matchCount |-> 2, totalScore |-> 150, averageScore |-> 75] }

\* Nobody signed in, two coaches, and users whose uid is '' or undefined.
LoadUsers ==
    { Null, <<[uid |-> "c1", name |-> "Kim"]>>, <<[uid |-> "c2", name |-> "Lee"]>>,
      <<[uid |-> "", name |-> "Kim"]>>, <<[name |-> "Kim"]>> }

InitLoads ==
    /\ InitDashboard
    /\ userData \in LoadUsers
    /\ today = ""
    /\ NoClassification
    /\ InitForm

LoadRoster == LoadDashboardData(Rosters(LoadPool))

UserChanges == ChangeUserData(LoadUsers)

NextLoads == Mount \/ UserChanges \/ LoadRoster \/ LoadRejects \/ TryAgain

SpecLoads == InitLoads /\ [][NextLoads]_vars

(***************************************************************************)
(* Score classification (lines 92-107).                                    *)
(***************************************************************************)
getPerformanceColor(sc) ==
    IF sc >= 80 THEN "text-green-600"
    ELSE IF sc >= 60 THEN "text-yellow-600"
    ELSE "text-red-600"

\* A faulty getPerformanceStatus, to test the properties against: the bounds are exclusive.
getPerformanceStatusExclusive(sc) ==
    IF sc > 80 THEN "Excellent"
    ELSE IF sc > 60 THEN "Good"
    ELSE "Needs Improvement"

getPerformanceStatus(sc) ==
    IF sc >= 80 THEN "Excellent"
    ELSE IF sc >= 60 THEN "Good"
    ELSE "Needs Improvement"

Scores == (-MaxBelowZero)..MaxScore

InitClassify ==
    /\ InitDashboard
    /\ userData \in Coaches
    /\ today = ""
    /\ score \in Scores
    /\ status = ""
    /\ color = ""
    /\ InitForm

\* The two classifiers applied to the same score, as the player card does
\* (getPerformanceColor(player.currentScore || 0),
\* getPerformanceStatus(player.currentScore || 0)).
Classify ==
    /\ status = ""
    /\ status' = getPerformanceStatus(score)
    /\ color' = getPerformanceColor(score)
    /\ UNCHANGED <<userData, players, loading, error, teamStats, today,
                   csvContent, exported, score>>
    /\ UNCHANGED <<loadVars, formVars>>

NextClassify == Classify

SpecClassify == InitClassify /\ [][NextClassify]_vars

(***************************************************************************)
(* handleExportReport (lines 112-169).                                     *)
(***************************************************************************)
\* strs[lo] .. strs[hi] joined with sep: Array.prototype.join.
RECURSIVE Join(_, _, _, _)
Join(strs, sep, lo, hi) ==
    IF lo > hi THEN ""
    ELSE IF lo = hi THEN strs[lo]
    ELSE LET mid == (lo + hi) \div 2
         IN  Join(strs, sep, lo, mid) \o sep \o Join(strs, sep, mid + 1, hi)

\* String.prototype.includes for a single character.
Includes(str, ch) == \E i \in 1..Len(str) : CharAt(str, i) = ch

\* cellStr.replace(/"/g, '""')
DoubleQuotes(str) ==
    Join([i \in 1..Len(str) |-> IF CharAt(str, i) = "\"" THEN "\"\"" ELSE CharAt(str, i)],
         "", 1, Len(str))

\* String(cell) for an integer.
IntegerToString(n) == ToString(n)

\* String(cell) for the double n / 100, n an integer: the shortest decimal
\* that reads back as the same double.
HundredthsToString(n) ==
    LET abs == IF n < 0 THEN -n ELSE n
        whole == ToString(abs \div 100)
        frac == abs % 100
        digits == IF frac = 0 THEN ""
                  ELSE IF frac % 10 = 0 THEN "." \o ToString(frac \div 10)
                  ELSE IF frac < 10 THEN ".0" \o ToString(frac)
                  ELSE "." \o ToString(frac)
    IN  (IF n < 0 THEN "-" ELSE "") \o whole \o digits

headers ==
    <<"Player Name", "Email", "Sport", "Current Score (%)", "Performance Status",
      "Total Matches", "Average Score">>

\* A faulty PlayerRow, to test the properties against: the last two columns change places.
PlayerRowSwapped(player) ==
    <<OrEmpty(player, "name"),
      OrEmpty(player, "email"),
      OrEmpty(player, "sport"),
      IntegerToString(OrZero(player, "currentScore")),
      getPerformanceStatus(OrZero(player, "currentScore")),
      IntegerToString(OrZero(player, "averageScore")),
      IntegerToString(OrZero(player, "matchCount"))>>

\* One element of rows (lines 117-125), every cell in its String(cell) form.
PlayerRow(player) ==
    <<OrEmpty(player, "name"),
      OrEmpty(player, "email"),
      OrEmpty(player, "sport"),
      IntegerToString(OrZero(player, "currentScore")),
      getPerformanceStatus(OrZero(player, "currentScore")),
      IntegerToString(OrZero(player, "matchCount")),
      IntegerToString(OrZero(player, "averageScore"))>>

\* A faulty TopPerformerName, to test the properties against: N/A is written only for
\* an absent top performer, a missing name is written as the empty text.
TopPerformerNameOrEmpty(stats) ==
    IF stats.topPerformer # Null
    THEN OrEmpty(stats.topPerformer[1], "name")
    ELSE "N/A"

\* teamStats.topPerformer?.name || 'N/A'
TopPerformerName(stats) ==
    IF stats.topPerformer # Null /\ OrEmpty(stats.topPerformer[1], "name") # ""
    THEN stats.topPerformer[1].name
    ELSE "N/A"

\* summaryRows (lines 128-140), every cell in its String(cell) form.
summaryRows(stats, user, date) ==
    << <<"Team Performance Report">>,
       <<"Coach Name", UserName(user)>>,
       <<"Report Date", date>>,
       <<"">>,
       <<"Team Statistics">>,
       <<"Total Players", IntegerToString(stats.totalPlayers)>>,
       <<"Team Average Score", HundredthsToString(stats.averageScore) \o "%">>,
       <<"Total Matches", IntegerToString(stats.totalMatches)>>,
       <<"Top Performer", TopPerformerName(stats)>>,
       <<"">>,
       <<"Player Details">> >>

\* allRows = [...summaryRows, headers, ...rows]
allRows(roster, stats, user, date) ==
    summaryRows(stats, user, date) \o <<headers>>
        \o [i \in 1..Len(roster) |-> PlayerRow(roster[i])]

\* A faulty EscapeCell, to test the properties against: a newline does not make the cell quoted.
EscapeCellUnlessNewline(cellStr) ==
    IF Includes(cellStr, ",") \/ Includes(cellStr, "\"")
    THEN "\"" \o DoubleQuotes(cellStr) \o "\""
    ELSE cellStr

\* The cell callback of lines 147-154.
EscapeCell(cellStr) ==
    IF Includes(cellStr, ",") \/ Includes(cellStr, "\"") \/ Includes(cellStr, "\n")
    THEN "\"" \o DoubleQuotes(cellStr) \o "\""
    ELSE cellStr

\* row.map(...).join(',')
CsvLine(row) == Join([c \in 1..Len(row) |-> EscapeCell(row[c])], ",", 1, Len(row))

\* A faulty CsvDocument, to test the properties against: every row is ended by a newline.
CsvDocumentEndedByNewline(rows) ==
    Join([r \in 1..Len(rows) |-> CsvLine(rows[r]) \o "\n"], "", 1, Len(rows))

\* allRows.map(...).join('\n')
CsvDocument(rows) == Join([r \in 1..Len(rows) |-> CsvLine(rows[r])], "\n", 1, Len(rows))

Dates == {"10/29/2026"}

\* The Export Report button is rendered once loading is false and error is
\* null.  The model follows the first export of a session.
handleExportReport ==
    /\ ~loading
    /\ error = Null
    /\ ~exported
    /\ \E date \in Dates :
         /\ today' = date
         /\ csvContent' = CsvDocument(allRows(players, teamStats, userData, date))
    /\ exported' = TRUE
    /\ UNCHANGED <<userData, players, loading, error, teamStats, score, status, color>>
    /\ UNCHANGED <<loadVars, formVars>>

\* Records that differ in their text and in the presence of every field.
Names == {<<>>, <<"">>, <<"Ann">>, <<"Doe, John">>, <<"He said \"hi\"">>, <<"Al\nBo">>}

Details ==
    { NoFields,
      [email |-> "ann@x.com", sport |-> "cricket", currentScore |-> 59,
       matchCount |-> 2, totalScore |-> 150, averageScore |-> 75],
      [email |-> "a,b@x.com", sport |-> "foot\"ball", currentScore |-> 80,
       matchCount |-> 8, totalScore |-> 201] }

ExportPool == { Field("name", nm) @@ d : nm \in Names, d \in Details }

ExportCoaches == { <<[uid |-> "c1"]>>, <<[uid |-> "c2", name |-> "Lee, Jo"]>> }

InitExport ==
    /\ InitDashboard
    /\ userData \in ExportCoaches
    /\ today = ""
    /\ NoClassification
    /\ InitForm

LoadExport == LoadDashboardData(Rosters(ExportPool))

NextExport == Mount \/ LoadExport \/ handleExportReport

SpecExport == InitExport /\ [][NextExport]_vars

(***************************************************************************)
(* The registration form at work: the candidates validateForm is applied   *)
(* to, and the events of a session of the form.                            *)
(***************************************************************************)
CandidateNames == {"", "  ", "\r", "A", " A ", "A\r", "\fA\t", "Jo", "Jane Doe"}

CandidateEmails ==
    {"", " ", "bad", "a@b", "@b.c", "a@.c", "a@b.", "a@ b.c", "a@b.c", "jane@x.com",
     "a@b@c.d", "a b@c.d", "a@b.c d", " a@b.c", "a\r@b.c", "a@b."}

CandidatePasswords == {"", "123", "12345", "123456", "secret1"}

CandidateConfirmations == {"", "1234", "123456", "secret1"}

\* The values of the options of the role select and of the sport select.
Roles == {"", "coach", "player"}
Sports == {"", "cricket"}

\* What the inputs can hold before the form is submitted: the sport is empty
\* when the role is coach.
Candidates ==
    { d \in [name : CandidateNames, email : CandidateEmails,
             password : CandidatePasswords, confirmPassword : CandidateConfirmations,
             role : Roles, sport : Sports] :
        d.role = "coach" => d.sport = "" }

InitValidate ==
    /\ InitDashboard
    /\ userData \in Coaches
    /\ today = ""
    /\ NoClassification
    /\ formData \in Candidates
    /\ errors = NoFields
    /\ isSubmitting = FALSE
    /\ submission = Null
    /\ reloading = FALSE

NextValidate == handleSubmit

SpecValidate == InitValidate /\ [][NextValidate]_vars

\* The change events of a session: the input called by the first component
\* takes the value of the second.
Changes ==
    ({"name"} \X {"A", "Jane Doe"})
    \cup ({"email"} \X {"bad", "jane@x.com"})
    \cup ({"password"} \X {"secret1"})
    \cup ({"confirmPassword"} \X {"1234", "secret1"})
    \cup ({"role"} \X Roles)
    \cup ({"sport"} \X Sports)

ChangeField == \E change \in Changes : handleChange(change[1], change[2])

InitRegister ==
    /\ InitDashboard
    /\ userData \in Coaches
    /\ today = ""
    /\ NoClassification
    /\ InitForm

NextRegister ==
    ChangeField \/ handleSubmit \/ RegisterResolves \/ RegisterRejects \/ Reload

SpecRegister == InitRegister /\ [][NextRegister]_vars

(***************************************************************************)
(* Properties of the team summary.                                         *)
(***************************************************************************)
\* The value of a statistic as the specification reads it: missing is 0.
Recorded(player, f) == IF f \in DOMAIN player THEN player[f] ELSE 0

\* The sum of a statistic over the first n records of a roster.
RECURSIVE Total(_, _, _)
Total(roster, f, n) ==
    IF n = 0 THEN 0 ELSE Total(roster, f, n - 1) + Recorded(roster[n], f)

\* The integer nearest to num/den (den > 0), a tie going away from zero.
RoundHalfAway(num, den) ==
    IF num >= 0 THEN (2 * num + den) \div (2 * den)
    ELSE -((2 * (-num) + den) \div (2 * den))

Played(player) == Recorded(player, "matchCount") > 0

PlayedPositions == {i \in 1..Len(players) : Played(players[i])}

InsertAt(roster, i, player) ==
    SubSeq(roster, 1, i) \o <<player>> \o SubSeq(roster, i + 1, Len(roster))

\* C1: when the sum of matchCount is positive, 100 * averageScore is the
\* integer nearest to 100 * sum(totalScore) / sum(matchCount), a tie going
\* away from zero; when the sum of matchCount is 0, averageScore is 0.
C1_AverageIsRoundedQuotient ==
    LET matches == Total(players, "matchCount", Len(players))
        scores == Total(players, "totalScore", Len(players))
    IN  teamStats.averageScore =
            IF matches > 0 THEN RoundHalfAway(100 * scores, matches) ELSE 0

\* C2: a record without matches has no weight in the team average: inserting
\* one anywhere in the roster leaves averageScore as it is.
ZeroMatchRecords ==
    { ("id" :> 0) @@ r : r \in {q \in StatsPool : Recorded(q, "matchCount") = 0
                                                  /\ "matchCount" \in DOMAIN q} }

C2_ZeroMatchRecordHasNoWeight ==
    \A p \in ZeroMatchRecords, i \in 0..Len(players) :
        \A roster \in {InsertAt(players, i, p)} :
            calculateTeamStats(roster).averageScore = teamStats.averageScore

\* C3: for a non-empty roster the top performer is absent exactly when no
\* record has matchCount > 0, and when present it is a record of the roster
\* with matchCount > 0.
C3_TopPerformerAbsentIffNobodyPlayed ==
    (~loading /\ players # <<>>) =>
        /\ (teamStats.topPerformer = Null) <=> (PlayedPositions = {})
        /\ teamStats.topPerformer # Null =>
               \E i \in PlayedPositions : players[i] = teamStats.topPerformer[1]

\* C3 witness: a loaded roster in which nobody has played, a record with a
\* positive averageScore included, and no top performer.
C3_Witness ==
    /\ ~loading
    /\ players # <<>>
    /\ PlayedPositions = {}
    /\ \E i \in 1..Len(players) : Recorded(players[i], "averageScore") > 0
    /\ teamStats.topPerformer = Null

\* C4: when some record has matchCount > 0, the top performer is the first
\* record, in input order, among the records with matchCount > 0 whose
\* averageScore (missing is 0) is the greatest.
BestPositions ==
    {i \in PlayedPositions :
        \A j \in PlayedPositions :
            Recorded(players[j], "averageScore") <= Recorded(players[i], "averageScore")}

C4_TopPerformerIsFirstOfTheBest ==
    (~loading /\ PlayedPositions # {}) =>
        \E k \in BestPositions :
            /\ \A j \in BestPositions : k <= j
            /\ teamStats.topPerformer = <<players[k]>>

\* C4 witness: two records that played share the greatest averageScore and
\* the earlier one is the top performer.
C4_Witness ==
    /\ ~loading
    /\ \E i, j \in BestPositions : i < j /\ teamStats.topPerformer = <<players[i]>>

\* C5: totalPlayers is the length of the roster and totalMatches the sum of
\* matchCount; the summary of an empty roster is all zero with no top
\* performer.
C5_CountsAndEmptyRoster ==
    /\ teamStats.totalPlayers = Len(players)
    /\ teamStats.totalMatches = Total(players, "matchCount", Len(players))
    /\ teamStats.totalPlayers = 0 => teamStats = EmptyTeamStats

\* C5 witness: getPlayersByCoach returned an empty roster and it was aggregated.
C5_Witness == ~loading /\ players = <<>> /\ teamStats = EmptyTeamStats

\* C6: writing 0 into a missing matchCount, totalScore or averageScore (one
\* field of one record, or all of them) gives the same summary: the same
\* counts, the same average and the same record as top performer.
StatFields == {"matchCount", "totalScore", "averageScore"}

TopId(stats) == IF stats.topPerformer = Null THEN 0 ELSE stats.topPerformer[1].id

SameSummary(a, b) ==
    /\ a.totalPlayers = b.totalPlayers
    /\ a.totalMatches = b.totalMatches
    /\ a.averageScore = b.averageScore
    /\ TopId(a) = TopId(b)

ZeroFilled(player, fields) ==
    [f \in DOMAIN player \cup fields |-> Recorded(player, f)]

C6_MissingFieldsCountAsZero ==
    /\ \A i \in 1..Len(players) :
         \A f \in StatFields \ DOMAIN players[i] :
           \A roster \in {[players EXCEPT ![i] = ZeroFilled(players[i], {f})]} :
               SameSummary(calculateTeamStats(roster), teamStats)
    /\ \A roster \in {[i \in 1..Len(players) |-> ZeroFilled(players[i], StatFields)]} :
           SameSummary(calculateTeamStats(roster), teamStats)

\* C6 witness: a loaded roster with a record that has none of the three
\* statistics next to a record that played.
C6_Witness ==
    /\ ~loading
    /\ \E i \in 1..Len(players) : DOMAIN players[i] \cap StatFields = {}
    /\ teamStats.topPerformer # Null

(***************************************************************************)
(* Properties of the classification.                                       *)
(***************************************************************************)
\* C7: every score, negative and above 100 included, is in exactly one of
\* three tiers with inclusive lower bounds 80 and 60, and the status and the
\* color of a score are of the same tier.
C7_ThreeTiers ==
    status # "" =>
        /\ score >= 80 => status = "Excellent" /\ color = "text-green-600"
        /\ (60 <= score /\ score < 80) => status = "Good" /\ color = "text-yellow-600"
        /\ score < 60 => status = "Needs Improvement" /\ color = "text-red-600"

\* C7 witness: a classified score at a lower bound, with negative scores and
\* scores above 100 classified as well.
C7_Witness == score = 60 /\ status = "Good" /\ color = "text-yellow-600"

(***************************************************************************)
(* Properties of the exported document.  The document is read back with a  *)
(* reader of comma-separated values: a separator is a comma or a newline   *)
(* outside double quotes.                                                  *)
(***************************************************************************)
Positions(doc, ch) == {i \in 1..Len(doc) : CharAt(doc, i) = ch}

\* The positions of ch in doc that are outside double quotes.
Separators(doc, ch) ==
    LET quotes == Positions(doc, "\"")
    IN  {i \in Positions(doc, ch) : Cardinality({q \in quotes : q < i}) % 2 = 0}

\* The k-th smallest element of a set of numbers.
Nth(set, k) == CHOOSE x \in set : Cardinality({y \in set : y < x}) = k - 1

\* The pieces [from, to] of from..to between the separators seps.
Pieces(from, to, seps) ==
    LET inside == {x \in seps : from <= x /\ x <= to}
        n == Cardinality(inside) + 1
    IN  [k \in 1..n |->
            [from |-> IF k = 1 THEN from ELSE Nth(inside, k - 1) + 1,
             to |-> IF k = n THEN to ELSE Nth(inside, k) - 1]]

\* The cells of the document as they are written, row by row.
RawCells(doc) ==
    LET newlines == Separators(doc, "\n")
        commas == Separators(doc, ",")
        rowsOf == Pieces(1, Len(doc), newlines)
    IN  [r \in 1..Len(rowsOf) |->
            LET cellsOf == Pieces(rowsOf[r].from, rowsOf[r].to, commas)
            IN  [c \in 1..Len(cellsOf) |-> SubSeq(doc, cellsOf[c].from, cellsOf[c].to)]]

\* A quoted cell without its quotes, every doubled quote read as one.
Unquoted(raw) ==
    IF Len(raw) >= 2 /\ CharAt(raw, 1) = "\"" /\ CharAt(raw, Len(raw)) = "\""
    THEN LET inner == SubSeq(raw, 2, Len(raw) - 1)
             quotes == Positions(inner, "\"")
         IN  Join([i \in 1..Len(inner) |->
                      IF i \in quotes /\ Cardinality({q \in quotes : q < i}) % 2 = 1
                      THEN "" ELSE CharAt(inner, i)],
                  "", 1, Len(inner))
    ELSE raw

ParseCsv(doc) ==
    LET raw == RawCells(doc)
    IN  [r \in 1..Len(raw) |-> [c \in 1..Len(raw[r]) |-> Unquoted(raw[r][c])]]

\* The document split at every newline character.
SplitLines(doc) ==
    LET at == Pieces(1, Len(doc), Positions(doc, "\n"))
    IN  [k \in 1..Len(at) |-> SubSeq(doc, at[k].from, at[k].to)]

NeedsQuotes(cell) ==
    \E i \in 1..Len(cell) : CharAt(cell, i) \in {",", "\"", "\n"}

\* A cell as the escaping rule writes it.
Emitted(cell) ==
    IF NeedsQuotes(cell)
    THEN "\"" \o Join([i \in 1..Len(cell) |->
                          IF CharAt(cell, i) = "\"" THEN "\"\"" ELSE CharAt(cell, i)],
                      "", 1, Len(cell)) \o "\""
    ELSE cell

\* The logical rows of the report exported from the current state.
LogicalRows == allRows(players, teamStats, userData, today)

\* C8: every cell is written between double quotes, its own double quotes
\* doubled, if and only if it contains a comma, a double quote or a newline;
\* every other cell is written as it is.
C8_CellsQuotedWhenNeeded ==
    exported =>
        LET raw == RawCells(csvContent)
        IN  /\ Len(raw) = Len(LogicalRows)
            /\ \A r \in 1..Len(raw) :
                 /\ Len(raw[r]) = Len(LogicalRows[r])
                 /\ \A c \in 1..Len(raw[r]) : raw[r][c] = Emitted(LogicalRows[r][c])

\* C8 witness: the names Doe, John and He said "hi" are exported as
\* "Doe, John" and "He said ""hi""", next to an unquoted cell.
C8_Witness ==
    /\ exported
    /\ Len(players) = 2
    /\ RawCells(csvContent)[13][1] = "\"Doe, John\""
    /\ RawCells(csvContent)[14][1] = "\"He said \"\"hi\"\"\""
    /\ RawCells(csvContent)[13][3] = "cricket"

\* C9: the report is the eleven summary rows in their fixed order, the row
\* of column names, and one row per record in input order made of name,
\* email, sport, currentScore, the label of currentScore, matchCount and
\* averageScore, a missing number written as 0.
RowLabels ==
    <<"Team Performance Report", "Coach Name", "Report Date", "", "Team Statistics",
      "Total Players", "Team Average Score", "Total Matches", "Top Performer", "",
      "Player Details">>

ColumnNames ==
    <<"Player Name", "Email", "Sport", "Current Score (%)", "Performance Status",
      "Total Matches", "Average Score">>

Text(player, f) == IF f \in DOMAIN player THEN player[f] ELSE ""

Label(sc) ==
    IF sc >= 80 THEN "Excellent" ELSE IF sc >= 60 THEN "Good" ELSE "Needs Improvement"

DataRow(player) ==
    <<Text(player, "name"), Text(player, "email"), Text(player, "sport"),
      ToString(Recorded(player, "currentScore")),
      Label(Recorded(player, "currentScore")),
      ToString(Recorded(player, "matchCount")),
      ToString(Recorded(player, "averageScore"))>>

C9_RowOrder ==
    exported =>
        LET rows == ParseCsv(csvContent)
        IN  /\ Len(rows) = 12 + Len(players)
            /\ \A k \in 1..11 : rows[k][1] = RowLabels[k]
            /\ rows[12] = ColumnNames
            /\ \A i \in 1..Len(players) : rows[12 + i] = DataRow(players[i])

\* C9 witness: a report of two different records, the first one without a
\* currentScore.
C9_Witness ==
    /\ exported
    /\ Len(players) = 2
    /\ "currentScore" \notin DOMAIN players[1]
    /\ "currentScore" \in DOMAIN players[2]
    /\ Text(players[1], "name") # Text(players[2], "name")

\* The number of newline characters in the cells of the logical rows.
NewlinesInCells ==
    LET rows == LogicalRows
    IN  Cardinality(UNION { UNION { { <<r, c, i>> : i \in Positions(rows[r][c], "\n") }
                                    : c \in 1..Len(rows[r]) }
                            : r \in 1..Len(rows) })

WrittenRow(row) == Join([c \in 1..Len(row) |-> Emitted(row[c])], ",", 1, Len(row))

\* C10 as claimed: whatever the text fields are, the document split at the
\* newline characters is 12 + n lines, the k-th line being the k-th logical
\* row, its cells joined by single commas.
C10_OneRowOneLine ==
    exported =>
        LET lines == SplitLines(csvContent)
        IN  /\ Len(lines) = 12 + Len(players)
            /\ \A k \in 1..Len(lines) : lines[k] = WrittenRow(LogicalRows[k])

\* C10 as amended: the document split at the newline characters is 12 + n
\* lines plus one line for every newline character of a cell; when no cell
\* contains a newline, the k-th line is the k-th logical row, its cells
\* joined by single commas.
C10_OneRowOneLineWithoutNewlines ==
    exported =>
        LET lines == SplitLines(csvContent)
        IN  /\ Len(lines) = 12 + Len(players) + NewlinesInCells
            /\ NewlinesInCells = 0 =>
                   \A k \in 1..Len(lines) : lines[k] = WrittenRow(LogicalRows[k])

\* C10 witness: a report of a roster without newlines in its text, a quoted
\* cell included.
C10_Witness ==
    /\ exported
    /\ Len(players) >= 1
    /\ NewlinesInCells = 0
    /\ Text(players[1], "name") = "Doe, John"
    /\ Len(SplitLines(csvContent)) = 12 + Len(players)

\* C11 as claimed: the Top Performer row carries the name of the top
\* performer whenever the summary has one, and N/A if and only if the summary
\* has none.
TopPerformerRow == ParseCsv(csvContent)[9]

C11_NameOrNotAvailableIffAbsent ==
    exported =>
        /\ TopPerformerRow[1] = "Top Performer"
        /\ teamStats.topPerformer # Null =>
               TopPerformerRow[2] = Text(teamStats.topPerformer[1], "name")
        /\ (TopPerformerRow[2] = "N/A") <=> (teamStats.topPerformer = Null)

\* C11 as amended: the Top Performer row carries the name of the top
\* performer when the summary has one and its name is not empty, and N/A
\* otherwise: when the top performer is absent, or has no name or an empty one.
C11_NameOrNotAvailable ==
    exported =>
        TopPerformerRow =
            <<"Top Performer",
              IF teamStats.topPerformer # Null
                 /\ Text(teamStats.topPerformer[1], "name") # ""
              THEN Text(teamStats.topPerformer[1], "name")
              ELSE "N/A">>

\* C11 witness: a report whose top performer is the second record of the
\* roster and is named, the name needing quotes in the document.
C11_Witness ==
    /\ exported
    /\ Len(players) = 2
    /\ teamStats.topPerformer = <<players[2]>>
    /\ Text(players[1], "name") = "Ann"
    /\ TopPerformerRow = <<"Top Performer", "Doe, John">>

(***************************************************************************)
(* Properties of the loads of the dashboard.                               *)
(***************************************************************************)
\* C17: a load that fails leaves the players and the team summary as they
\* were (calculateTeamStats is not run), records the failure in error, starts
\* no other load and ends with loading false.
C17_FailedLoadRunsNoAggregation ==
    [][LoadRejects =>
          /\ players' = players
          /\ teamStats' = teamStats
          /\ error' # Null /\ error'[1] # ""
          /\ loading' = FALSE
          /\ started' = started
          /\ inflight' \subseteq inflight /\ inflight' # inflight]_vars

\* C17 witness: a load has failed while a roster of an earlier load is on
\* the page; the roster and its summary are still there, no load is pending.
C17_Witness ==
    /\ error = <<"permission-denied">>
    /\ ~loading
    /\ inflight = {}
    /\ Len(players) = 2
    /\ teamStats.totalPlayers = 2

\* C18: in every state of the dashboard, whatever loads succeeded, failed or
\* overlapped, the team summary is the aggregation of the players list.
C18_SummaryDescribesPlayers == teamStats = calculateTeamStats(players)

\* C18 witness: a load failed and another one delivered a roster with a top
\* performer while a third one is still pending.
C18_Witness ==
    /\ error # Null
    /\ inflight # {}
    /\ started = MaxLoads
    /\ players # <<>>
    /\ teamStats.topPerformer # Null

\* C19: loading is true whenever a load is in flight.
C19_LoadingWhileInFlight == inflight # {} => loading

(***************************************************************************)
(* Properties of the registration form.                                    *)
(***************************************************************************)
\* White space as the form takes it: the characters a trim removes.
Blanks == {" ", "\t", "\n", "\f", "\r", ""}

Blank(str) == \A i \in 1..Len(str) : CharAt(str, i) \in Blanks

\* The length of str without the white space around it.
TrimmedLength(str) ==
    LET inked == {i \in 1..Len(str) : CharAt(str, i) \notin Blanks}
    IN  IF inked = {} THEN 0
        ELSE Nth(inked, Cardinality(inked)) - Nth(inked, 1) + 1

FormFields == {"name", "email", "password", "confirmPassword", "role", "sport"}

\* A candidate that breaks no rule.
ValidCandidate ==
    [name |-> "Jane Doe", email |-> "jane@x.com", password |-> "secret1",
     confirmPassword |-> "secret1", role |-> "coach", sport |-> ""]

\* The rule of each field.  The rule of the email is read off the candidate
\* whose other fields are valid: what it accepts is the matter of C14.
BreaksRule(data, f) ==
    CASE f = "name" -> Blank(data.name) \/ TrimmedLength(data.name) < 2
      [] f = "email" ->
            "email" \in DOMAIN validateForm([ValidCandidate EXCEPT !.email = data.email])
      [] f = "password" -> data.password = "" \/ Len(data.password) < 6
      [] f = "confirmPassword" ->
            \/ data.confirmPassword = ""
            \/ data.confirmPassword # "" /\ data.confirmPassword # data.password
      [] f = "role" -> data.role = ""
      [] f = "sport" -> data.role = "player" /\ data.sport = ""

\* handleSubmit has run on formData: errors holds what validateForm returned
\* (the empty result when register was called).
Validated == isSubmitting \/ errors # NoFields

\* C12: for every candidate the fields that carry an error are exactly the
\* fields whose own rule is broken, whatever the other fields are, every
\* error has a message, and the result is empty if and only if no rule is
\* broken.
C12_EveryBrokenRuleIsReported ==
    \A result \in {errors} : Validated =>
        /\ DOMAIN result = {f \in FormFields : BreaksRule(formData, f)}
        /\ \A f \in DOMAIN result : result[f] # ""
        /\ (result = NoFields) <=> (\A f \in FormFields : ~BreaksRule(formData, f))

\* C12 witness: the candidate {name: "A", email: "bad", password: "123",
\* confirmPassword: "1234", role: "player", sport: ""} was submitted and the
\* form shows five errors, none for the role.
C12_Witness ==
    /\ formData = [name |-> "A", email |-> "bad", password |-> "123",
                   confirmPassword |-> "1234", role |-> "player", sport |-> ""]
    /\ DOMAIN errors = {"name", "email", "password", "confirmPassword", "sport"}
    /\ errors.name = "Name must be at least 2 characters long"
    /\ errors.confirmPassword = "Passwords do not match"

\* C13: there is a sport error if and only if the role is player and the
\* sport is unset; for any other role the result is the same whatever the
\* sport is, and a candidate valid but for its sport is valid as a coach
\* without a sport.
C13_SportRequiredOfPlayersOnly ==
    \A result \in {errors} : Validated =>
        /\ ("sport" \in DOMAIN result) <=> (formData.role = "player" /\ formData.sport = "")
        /\ formData.role # "player" =>
               \A sport \in Sports : validateForm([formData EXCEPT !.sport = sport]) = result
        /\ (/\ formData.role = "coach"
            /\ formData.sport = ""
            /\ DOMAIN validateForm([formData EXCEPT !.role = "player", !.sport = "cricket"]) = {})
               => result = NoFields

\* C13 witness: the candidate {name: "Jane Doe", email: "jane@x.com",
\* password: "secret1", confirmPassword: "secret1", role: "coach", sport: ""}
\* was submitted and went on to register without an error.
C13_Witness ==
    /\ formData = ValidCandidate
    /\ errors = NoFields
    /\ isSubmitting
    /\ submission # Null

\* An email of the form token@token.token: no white space in it, an @ after
\* at least one character, a dot at least one character after the @ and at
\* least one character after that dot.
TokenAtTokenDotToken(str) ==
    /\ \A i \in 1..Len(str) : CharAt(str, i) \notin Blanks
    /\ \E at \in 1..Len(str), dot \in 1..Len(str) :
         /\ CharAt(str, at) = "@"
         /\ CharAt(str, dot) = "."
         /\ 1 < at
         /\ at + 1 < dot
         /\ dot < Len(str)

\* C14: the email error is 'Email is required' when the email is empty or
\* white space only; otherwise it is 'Please enter a valid email address'
\* exactly when the email is not of the form token@token.token; an email of
\* that form carries no error.
C14_EmailRequiredThenWellFormed ==
    \A result \in {errors} : Validated =>
        IF Blank(formData.email)
        THEN "email" \in DOMAIN result /\ result.email = "Email is required"
        ELSE IF ~TokenAtTokenDotToken(formData.email)
             THEN /\ "email" \in DOMAIN result
                  /\ result.email = "Please enter a valid email address"
             ELSE "email" \notin DOMAIN result

\* C15: when validateForm returns an error, handleSubmit does not call
\* register, leaves isSubmitting false and the form data as they are, and
\* sets errors to the result; register is called only with the data of a
\* form whose validation result is empty.
C15_RegisterOnlyAfterValidation ==
    [][/\ (handleSubmit /\ validateForm(formData) # NoFields) =>
              /\ submission' = Null
              /\ isSubmitting' = FALSE
              /\ formData' = formData
              /\ errors' = validateForm(formData)
       /\ (submission = Null /\ submission' # Null) =>
              /\ validateForm(formData) = NoFields
              /\ submission'[1].email = formData.email
              /\ submission'[1].role = formData.role]_vars

\* C15 witness: a form filled in but for its password was submitted; the
\* errors are the validation result and nothing is being registered.
C15_Witness ==
    /\ formData.name = "Jane Doe"
    /\ formData.password = ""
    /\ formData.role = "coach"
    /\ DOMAIN errors = {"password", "confirmPassword"}
    /\ errors = validateForm(formData)
    /\ ~isSubmitting
    /\ submission = Null

\* C16: in every state of the form with the role coach the sport is empty.
C16_CoachHasNoSport == formData.role = "coach" => formData.sport = ""

\* C16 witness: the form was submitted as a player without a sport, and the
\* role is now coach: the sport is empty and its error is cleared.
C16_Witness ==
    /\ formData.role = "coach"
    /\ formData.sport = ""
    /\ "sport" \in DOMAIN errors
    /\ errors.sport = ""

====
